---- MODULE Spec2Model ----
(***************************************************************************)
(* midicwkeyer.py: an iambic CW keyer.  loop() reads paddle events from a  *)
(* MIDI port, keys dits and dahs (side tone into the sink queues, RTS line *)
(* of the transmitter), and decodes the keyed sign on the transcript.      *)
(*                                                                         *)
(* Time is counted in ticks of 25 ms, so that dot_duration = 1.2 / wpm     *)
(* seconds is 48 / wpm ticks (1 tick at 48 wpm, 2 ticks at 24 wpm).  A     *)
(* sleep ends exactly at its deadline; the only statement that takes time  *)
(* is play_samples (lines 208, 220), between the keying timestamp and the  *)
(* computation of the hold.                                                *)
(***************************************************************************)
EXTENDS Integers, Sequences, FiniteSets, TLC

\* ---------------------------------------------------------------- bounds
MaxSign == 3        \* elements keyed into one sign before keying is cut off
MaxPrefix == 1      \* transcript columns before the sign after which no new input is made
MaxPending == 1     \* messages buffered by the paddle port, and by the control port
HoldPrefix == 0     \* MaxPrefix of the runs that follow one sign to its end
MaxChanges == 1     \* speed changes after which the speed knob is left alone
ScriptPrefix == 6   \* MaxPrefix of the scripted runs
TapSign == 2        \* MaxSign of the runs with short taps
TapPending == 2     \* MaxPending of the runs with short taps
MaxProc == 1        \* ticks play_samples may take
MaxFrames == 4      \* largest frame_count of an audio pull
MaxQueue == 24      \* sink queue length up to which blocks are appended (SpecAudio)

\* ------------------------------------------------------------- constants
TicksPerMinuteUnit == 48   \* 1.2 s / 25 ms: dot_duration = 48 / wpm ticks
Bias == 128                \* the silence level the callback pads with
DefaultWpm == 24           \* --wpm when the option is not given

CtrlValues == {54, 127}    \* control values that map to 24 and 48 wpm

Min(a, b) == IF a < b THEN a ELSE b

\* ------------------------------------------------------------ morse table
morse ==
  [s \in {<<".","-">>, <<".","-",".","-">>, <<"-",".",".",".">>,
          <<"-",".","-",".">>, <<"-","-","-","-">>, <<"-",".",".">>, <<".">>,
          <<".",".","-",".">>, <<"-","-",".">>, <<".",".",".",".">>,
          <<".",".">>, <<".","-","-","-">>, <<"-",".","-">>,
          <<".","-",".",".">>, <<"-","-">>, <<"-",".">>, <<"-","-","-">>,
          <<"-","-","-",".">>, <<".","-","-",".">>, <<"-","-",".","-">>,
          <<".","-",".">>, <<".",".",".">>, <<"-">>, <<".",".","-">>,
          <<".",".","-","-">>, <<".",".",".","-">>, <<".","-","-">>,
          <<"-",".",".","-">>, <<"-",".","-","-">>, <<"-","-",".",".">>,
          <<"-","-","-","-","-">>, <<".","-","-","-","-">>,
          <<".",".","-","-","-">>, <<".",".",".","-","-">>,
          <<".",".",".",".","-">>, <<".",".",".",".",".">>,
          <<"-",".",".",".",".">>, <<"-","-",".",".",".">>,
          <<"-","-","-",".",".">>, <<"-","-","-","-",".">>,
          <<".","-",".","-",".">>, <<"-","-",".",".","-","-">>,
          <<"-",".",".",".",".","-">>, <<".","-",".","-",".","-">>,
          <<"-",".",".","-",".">>, <<"-","-","-",".",".",".">>,
          <<"-",".",".",".","-">>, <<".",".","-","-",".",".">>,
          <<".","-","-",".","-",".">>, <<".","-",".",".",".">>,
          <<".",".",".","-",".","-">>} |->
     CASE s = <<".","-">> -> <<"A">>
       [] s = <<".","-",".","-">> -> <<"Ä">>
       [] s = <<"-",".",".",".">> -> <<"B">>
       [] s = <<"-",".","-",".">> -> <<"C">>
       [] s = <<"-","-","-","-">> -> <<"C","H">>
       [] s = <<"-",".",".">> -> <<"D">>
       [] s = <<".">> -> <<"E">>
       [] s = <<".",".","-",".">> -> <<"F">>
       [] s = <<"-","-",".">> -> <<"G">>
       [] s = <<".",".",".",".">> -> <<"H">>
       [] s = <<".",".">> -> <<"I">>
       [] s = <<".","-","-","-">> -> <<"J">>
       [] s = <<"-",".","-">> -> <<"K">>
       [] s = <<".","-",".",".">> -> <<"L">>
       [] s = <<"-","-">> -> <<"M">>
       [] s = <<"-",".">> -> <<"N">>
       [] s = <<"-","-","-">> -> <<"O">>
       [] s = <<"-","-","-",".">> -> <<"Ö">>
       [] s = <<".","-","-",".">> -> <<"P">>
       [] s = <<"-","-",".","-">> -> <<"Q">>
       [] s = <<".","-",".">> -> <<"R">>
       [] s = <<".",".",".">> -> <<"S">>
       [] s = <<"-">> -> <<"T">>
       [] s = <<".",".","-">> -> <<"U">>
       [] s = <<".",".","-","-">> -> <<"Ü">>
       [] s = <<".",".",".","-">> -> <<"V">>
       [] s = <<".","-","-">> -> <<"W">>
       [] s = <<"-",".",".","-">> -> <<"X">>
       [] s = <<"-",".","-","-">> -> <<"Y">>
       [] s = <<"-","-",".",".">> -> <<"Z">>
       [] s = <<"-","-","-","-","-">> -> <<"0">>
       [] s = <<".","-","-","-","-">> -> <<"1">>
       [] s = <<".",".","-","-","-">> -> <<"2">>
       [] s = <<".",".",".","-","-">> -> <<"3">>
       [] s = <<".",".",".",".","-">> -> <<"4">>
       [] s = <<".",".",".",".",".">> -> <<"5">>
       [] s = <<"-",".",".",".",".">> -> <<"6">>
       [] s = <<"-","-",".",".",".">> -> <<"7">>
       [] s = <<"-","-","-",".",".">> -> <<"8">>
       [] s = <<"-","-","-","-",".">> -> <<"9">>
       [] s = <<".","-",".","-",".">> -> <<"+">>
       [] s = <<"-","-",".",".","-","-">> -> <<",">>
       [] s = <<"-",".",".",".",".","-">> -> <<"-">>
       [] s = <<".","-",".","-",".","-">> -> <<".">>
       [] s = <<"-",".",".","-",".">> -> <<"/">>
       [] s = <<"-","-","-",".",".",".">> -> <<";">>
       [] s = <<"-",".",".",".","-">> -> <<"=">>
       [] s = <<".",".","-","-",".",".">> -> <<"?">>
       [] s = <<".","-","-",".","-",".">> -> <<"@">>
       [] s = <<".","-",".",".",".">> -> <<"<","A","S",">">>
       [] s = <<".",".",".","-",".","-">> -> <<"<","S","K",">">>]

\* ------------------------------------------------------------------ state
VARIABLES
  pc,           \* where loop() stands: "poll", "key", "play", "hold", "gap", "wait", "exit"
  state,        \* loop(): state
  sign,         \* loop(): sign, a sequence of "." and "-"
  sign_len,     \* loop(): sign_len
  dit, dah,     \* loop(): the result of the last poll
  elapsed,      \* ticks since now = time.time() (lines 206, 218) while an element is keyed
  sleepLeft,    \* ticks left of the time.sleep the loop is in
  delay,        \* ticks since ts = time.time() (line 247) while the loop blocks in poll
  wpm,          \* args.wpm; dot_duration and the two sample blocks follow from it
  paddles,      \* main(): paddles, note -> pressed
  rts,          \* txserial.rts
  screen,       \* the columns of the transcript left of the cursor
  audiobuffer,  \* the sink queues
  pending,      \* messages the MIDI port holds for iter_pending()/receive()
  ctrl,         \* control values (control 0x3D) the control port holds
  contact,      \* the physical contacts, note -> closed
  cb,           \* audio_callback's frame in SpecAudio: [pc, frame_count, samples,
                \* rest], with the queue as the call found it (before) and the
                \* samples appended since (arrived)
  owed,         \* samples appended to the first sink and not yet returned by a pull
  quiet,        \* ticks of silence since the last element of the pending sign (capped)
  gapUnit,      \* dot_duration when that element ended
  run,          \* "both": both contacts closed ever since a moment the state was
                \* idle; "dit": the dit contact closed ever since such a moment,
                \* with no dah press seen, pending or made since; else "none"
  runLast,      \* the last element keyed since run last changed, or "none"
  changes,      \* the number of speed changes poll() has made
  committed,    \* the transcript columns that were there when the pending sign began
  limits,       \* the bounds of this run: [sign, prefix, pending, changes]
  script,       \* what the operator of a scripted run has still to do
  made,         \* the sample counts generate_sample last came to, per part
  reported      \* the contact the blocking poll has just reported pressed
                \* ("dit" before "dah"), until the next poll; else "none"

vars == <<pc, state, sign, sign_len, dit, dah, elapsed, sleepLeft, delay, wpm,
          paddles, rts, screen, audiobuffer, pending, ctrl, contact, cb, owed,
          quiet, gapUnit, run, runLast, changes, committed, limits,
                 script, made, reported>>

States == {"idle", "dit", "dah", "pause before dit", "pause before dah",
           "pause after dit", "pause after dah"}

NoteOn(n) == [type |-> "note_on", note |-> n]
NoteOff(n) == [type |-> "note_off", note |-> n]

\* ------------------------------------------------------------ pure helpers
dot_duration(w) == TicksPerMinuteUnit \div w

\* round(num / den) for num, den > 0 (no ties arise for den = 127)
Round(num, den) == (2 * num + den) \div (2 * den)

\* line 183: round(6.0 + 42.0 * (value / 127.0))
SpeedOfControl(value) == Round(6 * 127 + 42 * value, 127)

Digit(d) == CASE d = 0 -> "0" [] d = 1 -> "1" [] d = 2 -> "2" [] d = 3 -> "3"
              [] d = 4 -> "4" [] d = 5 -> "5" [] d = 6 -> "6" [] d = 7 -> "7"
              [] d = 8 -> "8" [] d = 9 -> "9"

\* str(n) for 0 <= n < 100, as a sequence of characters
Decimal(n) == IF n < 10 THEN <<Digit(n)>> ELSE <<Digit(n \div 10), Digit(n % 10)>>

\* line 187: f"<{args.wpm}>"
SpeedMarker(w) == <<"<">> \o Decimal(w) \o <<">">>

Blanks(n) == [i \in 1..n |-> " "]

\* an erase that goes one column too far
erase_one_more(scr, chars) ==
  SubSeq(scr, 1, Len(scr) - Min(chars + 1, Len(scr)))

\* erase_chars: chars backspaces, chars blanks, chars backspaces.  The
\* backspaces stop at the first column; the blanks left right of the cursor
\* are not part of the text left of the cursor.
erase_chars(scr, chars) ==
  LET back == Min(chars, Len(scr))
      afterBack == SubSeq(scr, 1, Len(scr) - back)
      afterBlanks == afterBack \o Blanks(chars)
  IN  SubSeq(afterBlanks, 1, Len(afterBlanks) - Min(chars, Len(afterBlanks)))

\* ------------------------------------------------------------- wave forms
SampleRate == 3       \* samples per tick
RampNum == 12         \* ramp = 12 ms = RampNum / RampDen ticks
RampDen == 25

ramp_samples == (RampNum * SampleRate) \div RampDen
num_samples(duration) == ((RampDen * duration - RampNum) * SampleRate) \div RampDen

\* generate_sample: ramp up, steady tone, ramp down.  A sample is stood for
\* by x, the index the code computes its phase from.
generate_sample(duration) ==
  [x \in 1..(ramp_samples + num_samples(duration) + ramp_samples) |-> x - 1]

dit_sample(w) == generate_sample(dot_duration(w))
dah_sample(w) == generate_sample(3 * dot_duration(w))

\* play_samples: the block goes to the tail of every sink queue
play_samples(buffers, sample) == [i \in DOMAIN buffers |-> buffers[i] \o sample]

\* buffer[:n] and buffer[n:]
Take(buffer, n) == SubSeq(buffer, 1, Min(n, Len(buffer)))
Drop(buffer, n) == SubSeq(buffer, Min(n, Len(buffer)) + 1, Len(buffer))

\* lines 147-148: pad with silence up to frame_count
Pad(samples, frame_count) ==
  IF Len(samples) < frame_count
  THEN samples \o [i \in 1..(frame_count - Len(samples)) |-> Bias]
  ELSE samples

\* audio_callback run without interruption: what it returns, what it leaves
audio_callback(buffer, frame_count) ==
  [out |-> Pad(Take(buffer, frame_count), frame_count),
   buffer |-> Drop(buffer, frame_count)]

\* ------------------------------------------------------------------- poll
\* a poll that reports the level of each contact after the drain
PollLevels(msgs, d, h, p) ==
  LET events(n) == {i \in 1..Len(msgs) : msgs[i].note = n}
      last(n) == CHOOSE i \in events(n) : \A j \in events(n) : j <= i
      level(n) == IF events(n) = {} THEN p[n] ELSE msgs[last(n)].type = "note_on"
  IN  [dit |-> IF events(1) = {} THEN d ELSE level(1),
       dah |-> IF events(2) = {} THEN h ELSE level(2),
       paddles |-> [n \in {1, 2} |-> level(n)]]

RECURSIVE PollMsgs(_, _, _, _)
\* lines 166-176: the for loop over the drained messages
PollMsgs(msgs, d, h, p) ==
  IF msgs = <<>> THEN [dit |-> d, dah |-> h, paddles |-> p]
  ELSE LET msg == Head(msgs)
           d1 == IF msg.type = "note_on" /\ msg.note = 1 THEN TRUE ELSE d
           h1 == IF msg.type = "note_on" /\ msg.note # 1 /\ msg.note = 2 THEN TRUE ELSE h
           p1 == IF msg.type \in {"note_on", "note_off"} /\ msg.note \in {1, 2}
                 THEN [p EXCEPT ![msg.note] = (msg.type = "note_on")]
                 ELSE p
       IN  PollMsgs(Tail(msgs), d1, h1, p1)

\* lines 180-183: wpm2 after the control port is drained (0 stands for None)
Wpm2(values) == IF values = <<>> THEN 0 ELSE SpeedOfControl(values[Len(values)])

\* poll(): the messages drained, the control values drained, the paddles and
\* the speed before.  What it returns and what it leaves behind.
poll(msgs, values, p, w) ==
  LET r == PollMsgs(msgs, p[1], p[2], p)
      wpm2 == Wpm2(values)
      changed == wpm2 # 0 /\ wpm2 # w
  IN  [dit |-> r.dit, dah |-> r.dah, paddles |-> r.paddles,
       wpm |-> IF changed THEN wpm2 ELSE w,
       out |-> IF changed THEN SpeedMarker(wpm2) ELSE <<>>]

\* ------------------------------------------------------------ the key loop
NSinks == 1                      \* main(): one sink queue unless --txaudio is given
txserial == TRUE                 \* loop() is given a serial port to key
FramesPerTick == SampleRate      \* the audio device pulls one tick of samples per tick
SlowestUnit == TicksPerMinuteUnit \div 24
DelayCap == 5 * SlowestUnit      \* delay is not counted beyond the longest 5 units
QuietCap == 6 * SlowestUnit

\* a table that looks at the dah contact first when idle
next_state_dah_first(st, d, h) ==
  CASE st = "idle" -> IF h THEN "dah" ELSE IF d THEN "dit" ELSE "idle"
    [] st = "pause before dit" -> "dit"
    [] st = "pause before dah" -> "dah"
    [] st = "dit" -> IF h THEN "pause before dah" ELSE "pause after dit"
    [] st = "dah" -> IF d THEN "pause before dit" ELSE "pause after dah"
    [] st = "pause after dit" -> IF h THEN "dah" ELSE "idle"
    [] st = "pause after dah" -> IF d THEN "dit" ELSE "idle"
    [] OTHER -> "Bad state"

\* a table that repeats the element after a pre-empting press
next_state_repeat(st, d, h) ==
  CASE st = "idle" -> IF d THEN "dit" ELSE IF h THEN "dah" ELSE "idle"
    [] st = "pause before dit" -> "dah"
    [] st = "pause before dah" -> "dit"
    [] st = "dit" -> IF h THEN "pause before dah" ELSE "pause after dit"
    [] st = "dah" -> IF d THEN "pause before dit" ELSE "pause after dah"
    [] st = "pause after dit" -> IF h THEN "dah" ELSE "idle"
    [] st = "pause after dah" -> IF d THEN "dit" ELSE "idle"
    [] OTHER -> "Bad state"

\* a table with one state name misspelt
next_state_misspelt(st, d, h) ==
  CASE st = "idle" -> IF d THEN "dit" ELSE IF h THEN "dah" ELSE "idle"
    [] st = "pause before dit" -> "dit"
    [] st = "pause before dah" -> "dah"
    [] st = "dit" -> IF h THEN "pause before dah" ELSE "pause after dit"
    [] st = "dah" -> IF d THEN "pause before dit" ELSE "pause after  dah"
    [] st = "pause after dit" -> IF h THEN "dah" ELSE "idle"
    [] st = "pause after dah" -> IF d THEN "dit" ELSE "idle"
    [] OTHER -> "Bad state"

\* lines 229-295 without the decoding: the next state for a poll result
next_state(st, d, h) ==
  CASE st = "idle" -> IF d THEN "dit" ELSE IF h THEN "dah" ELSE "idle"
    [] st = "pause before dit" -> "dit"
    [] st = "pause before dah" -> "dah"
    [] st = "dit" -> IF h THEN "pause before dah" ELSE "pause after dit"
    [] st = "dah" -> IF d THEN "pause before dit" ELSE "pause after dah"
    [] st = "pause after dit" -> IF h THEN "dah" ELSE "idle"
    [] st = "pause after dah" -> IF d THEN "dit" ELSE "idle"
    [] OTHER -> "Bad state"

\* a decode step that prints nothing
decode_silent(scr, sg, len) == [screen |-> scr, sign_len |-> len]

\* lines 237-244: the decode step on the transcript
decode(scr, sg, len) ==
  IF sg \in DOMAIN morse
  THEN [screen |-> erase_chars(scr, len) \o morse[sg], sign_len |-> Len(morse[sg])]
  ELSE [screen |-> scr \o <<" ">>, sign_len |-> len + 1]

\* a classification that takes four units for a word gap
classify_four(scr, sg, len, dly, unit, pressed) ==
  IF dly <= unit /\ pressed
  THEN [screen |-> erase_chars(scr, len) \o sg, sign |-> sg, sign_len |-> Len(sg)]
  ELSE [screen |-> IF dly >= 4 * unit THEN scr \o <<" ">> ELSE scr,
        sign |-> <<>>, sign_len |-> 0]

\* lines 251-262: what the press that ends the blocking poll does to the sign
classify(scr, sg, len, dly, unit, pressed) ==
  IF dly <= unit /\ pressed
  THEN [screen |-> erase_chars(scr, len) \o sg, sign |-> sg, sign_len |-> Len(sg)]
  ELSE [screen |-> IF dly >= 5 * unit THEN scr \o <<" ">> ELSE scr,
        sign |-> <<>>, sign_len |-> 0]

Closed(c) == {n \in {1, 2} : c[n]}

\* run after a step that leaves state st, contacts c, paddles p, messages msgs
RunAfter(st, c, p, msgs) ==
  LET fresh == IF st # "idle" THEN "none"
               ELSE IF Closed(c) = {1, 2} THEN "both"
               ELSE IF Closed(c) = {1} /\ ~p[2] /\ \A i \in DOMAIN msgs : msgs[i].note # 2
                    THEN "dit" ELSE "none"
  IN  CASE run = "both" /\ Closed(c) = {1, 2} -> "both"
        [] run = "dit" /\ Closed(c) = {1} -> "dit"
        [] OTHER -> fresh

\* the book-keeping of run and runLast by a step in which element keyed
\* ("none" if none) was begun
Track(st, c, p, msgs, keyed) ==
  /\ run' = RunAfter(st, c, p, msgs)
  /\ runLast' = IF run' # run \/ run' = "none" THEN "none"
                ELSE IF keyed # "none" THEN keyed ELSE runLast

Running == pc \notin {"exit", "raise"}

\* the transcript columns that are neither the pending sign nor a speed marker
MarkerWidth == Len(SpeedMarker(DefaultWpm))
OtherText == Len(screen) - sign_len - MarkerWidth * changes

\* generate_sample has not run
NothingMade == [units |-> 0, up |-> 0, steady |-> 0, down |-> 0]

\* no audio_callback is running
CbIdle == [pc |-> "idle", frame_count |-> 0, samples |-> <<>>, rest |-> <<>>,
           before |-> <<>>, arrived |-> <<>>]

\* loop() is entered
Entry ==
  /\ pc = "poll" /\ state = "idle" /\ sign = <<>> /\ sign_len = 0
  /\ dit = FALSE /\ dah = FALSE
  /\ elapsed = 0 /\ sleepLeft = 0 /\ delay = 0
  /\ wpm = DefaultWpm
  /\ paddles = [n \in {1, 2} |-> FALSE]
  /\ rts = 0
  /\ screen = <<>>
  /\ audiobuffer = [i \in 1..NSinks |-> <<>>]
  /\ pending = <<>> /\ ctrl = <<>>
  /\ contact = [n \in {1, 2} |-> FALSE]
  /\ cb = CbIdle
  /\ owed = <<>>
  /\ quiet = 0 /\ gapUnit = 0
  /\ run = "none" /\ runLast = "none"
  /\ changes = 0 /\ committed = 0
  /\ made = NothingMade /\ reported = "none"

Init ==
  /\ Entry
  /\ limits = [sign |-> MaxSign, prefix |-> MaxPrefix, pending |-> MaxPending,
              changes |-> MaxChanges]
  /\ script = <<>>

\* lines 201-207, 213-219: glyph, sign, timestamp, keying line
KeyBegin ==
  /\ pc = "key"
  /\ Len(sign) < limits.sign /\ OtherText <= limits.prefix
  /\ LET glyph == IF state = "dit" THEN "." ELSE "-"
     IN  /\ screen' = Append(screen, glyph)
         /\ sign' = Append(sign, glyph)
  /\ sign_len' = sign_len + 1
  /\ elapsed' = 0
  /\ rts' = IF txserial THEN 1 ELSE rts
  /\ pc' = "play"
  /\ Track(state, contact, paddles, pending, state)
  /\ UNCHANGED <<state, dit, dah, sleepLeft, delay, wpm, paddles, audiobuffer,
                 pending, ctrl, contact, cb, owed, quiet, gapUnit, changes, committed, limits,
                 script, made, reported>>

\* lines 208-209, 220-221: enqueue the block, compute the hold
Play ==
  /\ pc = "play"
  /\ LET sample == IF state = "dit" THEN dit_sample(wpm) ELSE dah_sample(wpm)
         units == IF state = "dit" THEN 1 ELSE 3
     IN  /\ audiobuffer' = play_samples(audiobuffer, sample)
         /\ owed' = owed \o sample
         /\ sleepLeft' = elapsed + units * dot_duration(wpm)
  /\ pc' = "hold"
  /\ UNCHANGED <<state, sign, sign_len, dit, dah, elapsed, delay, wpm, paddles,
                 rts, screen, pending, ctrl, contact, cb, quiet, gapUnit, run, runLast, changes, committed, limits,
                 script, made, reported>>

\* a release of the line followed by a gap of two units
DeassertLongGap ==
  /\ pc = "hold" /\ sleepLeft = 0
  /\ rts' = IF txserial THEN 0 ELSE rts
  /\ sleepLeft' = 2 * dot_duration(wpm)
  /\ elapsed' = 0
  /\ quiet' = 0 /\ gapUnit' = dot_duration(wpm)
  /\ pc' = "gap"
  /\ UNCHANGED <<state, sign, sign_len, dit, dah, delay, wpm, paddles, screen,
                 audiobuffer, pending, ctrl, contact, cb, owed, run, runLast,
                 changes, committed, limits,
                 script, made, reported>>

\* a gap that begins with the line still asserted
DeassertLineKept ==
  /\ pc = "hold" /\ sleepLeft = 0
  /\ rts' = rts
  /\ sleepLeft' = dot_duration(wpm)
  /\ elapsed' = 0
  /\ quiet' = 0 /\ gapUnit' = dot_duration(wpm)
  /\ pc' = "gap"
  /\ UNCHANGED <<state, sign, sign_len, dit, dah, delay, wpm, paddles, screen,
                 audiobuffer, pending, ctrl, contact, cb, owed, run, runLast,
                 changes, committed, limits,
                 script, made, reported>>

\* lines 210-211, 222-223: the hold is over; release the line, sleep the gap
Deassert ==
  /\ pc = "hold" /\ sleepLeft = 0
  /\ rts' = IF txserial THEN 0 ELSE rts
  /\ sleepLeft' = dot_duration(wpm)
  /\ elapsed' = 0
  /\ quiet' = 0 /\ gapUnit' = dot_duration(wpm)
  /\ pc' = "gap"
  /\ UNCHANGED <<state, sign, sign_len, dit, dah, delay, wpm, paddles, screen,
                 audiobuffer, pending, ctrl, contact, cb, owed, run, runLast, changes, committed, limits,
                 script, made, reported>>

AtPoll == pc = "poll" \/ (pc = "gap" /\ sleepLeft = 0)

\* lines 226-295: non-blocking poll, next state, and in idle the decode step
PollStep ==
  /\ AtPoll
  /\ LET r == poll(pending, ctrl, paddles, wpm)
         scr == screen \o r.out
         st == next_state(state, r.dit, r.dah)
         dec == decode(scr, sign, sign_len)
         decoding == state = "idle" /\ ~r.dit /\ ~r.dah
     IN  /\ dit' = r.dit /\ dah' = r.dah
         /\ paddles' = r.paddles /\ wpm' = r.wpm
         /\ changes' = IF r.wpm # wpm THEN changes + 1 ELSE changes
         /\ state' = IF st = "Bad state" THEN state ELSE st
         /\ screen' = IF decoding THEN dec.screen ELSE scr
         /\ sign_len' = IF decoding THEN dec.sign_len ELSE sign_len
         /\ pc' = IF st = "Bad state" THEN "raise"
                  ELSE IF decoding THEN "wait"
                  ELSE IF st \in {"dit", "dah"} THEN "key" ELSE "poll"
         /\ Track(IF st = "Bad state" THEN state ELSE st, contact, r.paddles, <<>>, "none")
  /\ pending' = <<>> /\ ctrl' = <<>>
  /\ delay' = 0
  /\ sleepLeft' = 0
  /\ reported' = "none"
  /\ UNCHANGED <<sign, elapsed, rts, audiobuffer, contact, cb, owed, quiet,
                 gapUnit, committed, limits, script, made>>

\* lines 247-262: the blocking poll returns with the first message
WaitStep ==
  /\ pc = "wait" /\ pending # <<>>
  /\ LET r == poll(pending, ctrl, paddles, wpm)
         c == classify(screen \o r.out, sign, sign_len, delay,
                       dot_duration(r.wpm), r.dit \/ r.dah)
     IN  /\ dit' = r.dit /\ dah' = r.dah
         /\ paddles' = r.paddles /\ wpm' = r.wpm
         /\ changes' = IF r.wpm # wpm THEN changes + 1 ELSE changes
         /\ committed' = IF c.sign = <<>> THEN Len(c.screen) ELSE committed
         /\ screen' = c.screen /\ sign' = c.sign /\ sign_len' = c.sign_len
         /\ quiet' = IF c.sign = <<>> THEN 0 ELSE quiet
         /\ gapUnit' = IF c.sign = <<>> THEN 0 ELSE gapUnit
         /\ reported' = IF r.dit THEN "dit" ELSE IF r.dah THEN "dah" ELSE "none"
         /\ Track(state, contact, r.paddles, <<>>, "none")
  /\ pending' = <<>> /\ ctrl' = <<>>
  /\ delay' = 0
  /\ pc' = "poll"
  /\ UNCHANGED <<state, elapsed, sleepLeft, rts, audiobuffer, contact, cb, owed,
                 limits, script, made>>

\* lines 342-345: the operator interrupts the loop, wherever it stands; main()
\* passes and returns.  Of the state only the keying line outlives the
\* process, and a record of where the loop stood.
Interrupt ==
  /\ Running
  /\ pc' = "exit"
  /\ rts' = rts
  /\ state' = state
  /\ sign' = <<>> /\ sign_len' = 0 /\ dit' = FALSE /\ dah' = FALSE
  /\ elapsed' = 0 /\ sleepLeft' = 0 /\ delay' = 0
  /\ paddles' = [n \in {1, 2} |-> FALSE]
  /\ screen' = <<>>
  /\ audiobuffer' = [i \in 1..NSinks |-> <<>>] /\ owed' = <<>>
  /\ pending' = <<>> /\ ctrl' = <<>>
  /\ contact' = [n \in {1, 2} |-> FALSE]
  /\ quiet' = 0 /\ gapUnit' = 0 /\ run' = "none" /\ runLast' = "none"
  /\ committed' = 0
  /\ reported' = "none"
  /\ UNCHANGED <<wpm, cb, changes, limits, script, made>>

\* One tick of time passes: while play_samples runs, while the loop sleeps,
\* or while it blocks on an empty port.  The audio device pulls a tick of
\* samples from every sink.
Tick ==
  /\ \/ pc = "play" /\ elapsed < MaxProc
     \/ pc \in {"hold", "gap"} /\ sleepLeft > 0
     \/ pc = "wait" /\ pending = <<>>
  /\ elapsed' = IF pc \in {"play", "hold"} THEN elapsed + 1 ELSE elapsed
  /\ sleepLeft' = IF pc \in {"hold", "gap"} THEN sleepLeft - 1 ELSE sleepLeft
  /\ delay' = IF pc = "wait" THEN Min(delay + 1, DelayCap) ELSE delay
  /\ quiet' = IF rts = 0 /\ sign # <<>> THEN Min(quiet + 1, QuietCap) ELSE quiet
  /\ audiobuffer' = [i \in DOMAIN audiobuffer |->
                       audio_callback(audiobuffer[i], FramesPerTick).buffer]
  /\ owed' = Drop(owed, FramesPerTick)
  /\ UNCHANGED <<pc, state, sign, sign_len, dit, dah, wpm, paddles, rts, screen,
                 pending, ctrl, contact, cb, gapUnit, run, runLast, changes, committed, limits,
                 script, made, reported>>

\* ------------------------------------------------------------ environment
Room == Running /\ Len(pending) < limits.pending /\ OtherText <= limits.prefix

Press(n) ==
  /\ Room /\ ~contact[n]
  /\ contact' = [contact EXCEPT ![n] = TRUE]
  /\ pending' = Append(pending, NoteOn(n))
  /\ Track(state, contact', paddles, pending', "none")
  /\ UNCHANGED <<pc, state, sign, sign_len, dit, dah, elapsed, sleepLeft, delay,
                 wpm, paddles, rts, screen, audiobuffer, ctrl, cb, owed, quiet,
                 gapUnit, changes, committed, limits,
                 script, made, reported>>

Release(n) ==
  /\ Room /\ contact[n]
  /\ contact' = [contact EXCEPT ![n] = FALSE]
  /\ pending' = Append(pending, NoteOff(n))
  /\ Track(state, contact', paddles, pending', "none")
  /\ UNCHANGED <<pc, state, sign, sign_len, dit, dah, elapsed, sleepLeft, delay,
                 wpm, paddles, rts, screen, audiobuffer, ctrl, cb, owed, quiet,
                 gapUnit, changes, committed, limits,
                 script, made, reported>>

\* a message of the paddle port that is no paddle: another note
OtherNote ==
  /\ Room
  /\ pending' = Append(pending, NoteOn(3))
  /\ UNCHANGED <<pc, state, sign, sign_len, dit, dah, elapsed, sleepLeft, delay,
                 wpm, paddles, rts, screen, audiobuffer, ctrl, contact, cb, owed,
                 quiet, gapUnit, run, runLast, changes, committed, limits,
                 script, made, reported>>

\* the speed knob of the control port is turned
Control(value) ==
  /\ Running /\ Len(ctrl) < limits.pending /\ OtherText <= limits.prefix
  /\ changes + Len(ctrl) < limits.changes
  /\ ctrl' = Append(ctrl, value)
  /\ UNCHANGED <<pc, state, sign, sign_len, dit, dah, elapsed, sleepLeft, delay,
                 wpm, paddles, rts, screen, audiobuffer, pending, contact, cb,
                 owed, quiet, gapUnit, run, runLast, changes, committed, limits,
                 script, made, reported>>

Next ==
  \/ KeyBegin \/ Play \/ Deassert \/ PollStep \/ WaitStep \/ Tick \/ Interrupt
  \/ \E n \in {1, 2} : Press(n) \/ Release(n)
  \/ OtherNote
  \/ \E value \in CtrlValues : Control(value)

Spec == Init /\ [][Next]_vars

\* the loop runs on and time passes
InitHold ==
  /\ Entry
  /\ limits = [sign |-> MaxSign, prefix |-> HoldPrefix, pending |-> MaxPending,
              changes |-> MaxChanges]
  /\ script = <<>>

FairSpec ==
  /\ InitHold /\ [][Next]_vars
  /\ WF_vars(KeyBegin) /\ WF_vars(Play) /\ WF_vars(Deassert)
  /\ WF_vars(PollStep) /\ WF_vars(WaitStep) /\ WF_vars(Tick)

\* ------------------------------------------------- the audio thread alone
\* The audio device calls audio_callback on its own thread while the loop
\* calls play_samples.  Each statement of audio_callback that touches the
\* queue is one step; play_samples' buffer += sample is one step.
InitAudio ==
  /\ Entry
  /\ limits = [sign |-> MaxSign, prefix |-> MaxPrefix, pending |-> MaxPending,
              changes |-> MaxChanges]
  /\ script = <<>>

AudioIdle == <<pc, state, sign, sign_len, dit, dah, elapsed, sleepLeft, delay, wpm,
               paddles, rts, screen, pending, ctrl, contact, quiet, gapUnit, run,
               runLast, changes, committed, limits,
                 script, made, reported>>

\* line 142: buffer += sample, for the block of a dit or of a dah
Enqueue(st) ==
  /\ LET sample == IF st = "dit" THEN dit_sample(wpm) ELSE dah_sample(wpm)
     IN  /\ Len(owed) + Len(sample) <= MaxQueue
         /\ audiobuffer' = play_samples(audiobuffer, sample)
         /\ owed' = owed \o sample
         /\ cb' = IF cb.pc = "idle" THEN cb
                  ELSE [cb EXCEPT !.arrived = cb.arrived \o sample]
  /\ UNCHANGED AudioIdle

\* line 145: samples = buffer[:frame_count]
CbSlice(frame_count) ==
  /\ cb.pc = "idle"
  /\ cb' = [pc |-> "sliced", frame_count |-> frame_count,
            samples |-> Take(audiobuffer[1], frame_count), rest |-> <<>>,
            before |-> audiobuffer[1], arrived |-> <<>>]
  /\ UNCHANGED <<audiobuffer, owed>>
  /\ UNCHANGED AudioIdle

\* line 146, right-hand side: buffer[frame_count:]
CbTail ==
  /\ cb.pc = "sliced"
  /\ cb' = [cb EXCEPT !.pc = "copied", !.rest = Drop(audiobuffer[1], cb.frame_count)]
  /\ UNCHANGED <<audiobuffer, owed>>
  /\ UNCHANGED AudioIdle

\* what the call returns: lines 147-149
Returned(frame) == Pad(frame.samples, frame.frame_count)

\* line 146, the store: buffer[:] = ...; then lines 147-149 pad and return
CbStore ==
  /\ cb.pc = "copied"
  /\ audiobuffer' = [audiobuffer EXCEPT ![1] = cb.rest]
  /\ owed' = Drop(owed, Len(cb.samples))
  /\ cb' = CbIdle
  /\ UNCHANGED AudioIdle

NextAudio ==
  \/ \E st \in {"dit", "dah"} : Enqueue(st)
  \/ \E frame_count \in 1..MaxFrames : CbSlice(frame_count)
  \/ CbTail
  \/ CbStore

SpecAudio == InitAudio /\ [][NextAudio]_vars

\* ------------------------------------------------------ a scripted operator
\* The operator works the dit paddle by a script: each entry is a press or a
\* release and the moment for it: "start" (any time), "keyed" (while element
\* number n of the sign is keyed) or "long" (in the blocking poll, five units
\* or more after the decode).
Tap(n) == <<[do |-> "press", at |-> "long", n |-> 0],
            [do |-> "release", at |-> "keyed", n |-> n]>>

\* E, a long wait, S, a long wait, E
Scenario ==
  <<[do |-> "press", at |-> "start", n |-> 0],
    [do |-> "release", at |-> "keyed", n |-> 1]>> \o Tap(3) \o Tap(1)

InitScenario ==
  /\ Entry
  /\ limits = [sign |-> MaxSign, prefix |-> ScriptPrefix, pending |-> MaxPending,
              changes |-> MaxChanges]
  /\ script = Scenario

Operator ==
  /\ script # <<>> /\ Running /\ Len(pending) < limits.pending
  /\ LET ev == Head(script)
     IN  /\ CASE ev.at = "start" -> TRUE
              [] ev.at = "keyed" -> Len(sign) = ev.n /\ pc \in {"play", "hold"}
              [] ev.at = "long" -> pc = "wait" /\ delay >= 5 * dot_duration(wpm)
         /\ contact' = [contact EXCEPT ![1] = (ev.do = "press")]
         /\ pending' = Append(pending, IF ev.do = "press" THEN NoteOn(1) ELSE NoteOff(1))
  /\ script' = Tail(script)
  /\ Track(state, contact', paddles, pending', "none")
  /\ UNCHANGED <<pc, state, sign, sign_len, dit, dah, elapsed, sleepLeft, delay,
                 wpm, paddles, rts, screen, audiobuffer, ctrl, cb, owed, quiet,
                 gapUnit, changes, committed, limits, made, reported>>

NextScenario ==
  \/ KeyBegin \/ Play \/ Deassert \/ PollStep \/ WaitStep \/ Tick
  \/ Operator

SpecScenario == InitScenario /\ [][NextScenario]_vars

\* ------------------------------------------- wave forms at the real rate
sample_rate == 48000                       \* line 44, frames per second

\* line 135 times line 44: 1.2 * sample_rate, the frames of one unit at 1 wpm
UnitFrames == (6 * sample_rate) \div 5

\* line 114: int(ramp * sample_rate), ramp = 0.012 s
RampFrames == (RampNum * sample_rate) \div 1000

\* the speeds the control port can set (line 183)
Speeds == {SpeedOfControl(value) : value \in 0..127}

\* what the claim takes line 115 to be: the rounded frames of the duration
\* less the two ramps
SteadyFramesRounded(units, w) == {Round(units * UnitFrames, w) - 2 * RampFrames}

\* line 115: int((duration - ramp) * sample_rate) for a duration of units
\* dots at speed w.  The exact value is (units * UnitFrames) / w - RampFrames;
\* the code computes it in binary floating point and int() truncates, so where
\* the exact value is a whole number the result is that number or the one
\* below it.
SteadyFrames(units, w) ==
  LET num == units * UnitFrames - RampFrames * w
  IN  IF num % w = 0 THEN {num \div w, (num \div w) - 1} ELSE {num \div w}

InitSample ==
  /\ pc = "poll" /\ state = "idle" /\ sign = <<>> /\ sign_len = 0
  /\ dit = FALSE /\ dah = FALSE
  /\ elapsed = 0 /\ sleepLeft = 0 /\ delay = 0
  /\ wpm \in Speeds
  /\ paddles = [n \in {1, 2} |-> FALSE]
  /\ rts = 0
  /\ screen = <<>>
  /\ audiobuffer = [i \in 1..NSinks |-> <<>>]
  /\ pending = <<>> /\ ctrl = <<>>
  /\ contact = [n \in {1, 2} |-> FALSE]
  /\ cb = CbIdle
  /\ owed = <<>>
  /\ quiet = 0 /\ gapUnit = 0
  /\ run = "none" /\ runLast = "none"
  /\ changes = 0 /\ committed = 0
  /\ made = NothingMade /\ reported = "none"
  /\ limits = [sign |-> MaxSign, prefix |-> MaxPrefix, pending |-> MaxPending,
              changes |-> MaxChanges]
  /\ script = <<>>

\* lines 111-131: generate_sample(units * dot_duration); the three loops
\* append the ramp up, the steady tone and the ramp down
Generate(units) ==
  /\ \E n \in SteadyFrames(units, wpm) :
       made' = [units |-> units, up |-> RampFrames, steady |-> n,
                down |-> RampFrames]
  /\ UNCHANGED <<pc, state, sign, sign_len, dit, dah, elapsed, sleepLeft, delay,
                 wpm, paddles, rts, screen, audiobuffer, pending, ctrl, contact,
                 cb, owed, quiet, gapUnit, run, runLast, changes, committed,
                 limits, script, reported>>

\* lines 137-138: the dit block and the dah block
NextSample == Generate(1) \/ Generate(3)

SpecSample == InitSample /\ [][NextSample]_vars

\* ------------------------------------------------------- poll() on its own
PollLen == 3        \* messages pending at a poll

Messages == {NoteOn(1), NoteOff(1), NoteOn(2), NoteOff(2), NoteOn(3)}

Drains == UNION {[1..n -> Messages] : n \in 0..PollLen}

InitPoll ==
  /\ pc = "poll" /\ state = "idle" /\ sign = <<>> /\ sign_len = 0
  /\ dit = FALSE /\ dah = FALSE
  /\ elapsed = 0 /\ sleepLeft = 0 /\ delay = 0
  /\ wpm = DefaultWpm
  /\ paddles \in [{1, 2} -> BOOLEAN]
  /\ rts = 0
  /\ screen = <<>>
  /\ audiobuffer = [i \in 1..NSinks |-> <<>>]
  /\ pending \in Drains
  /\ ctrl \in {<<>>} \cup {<<value>> : value \in CtrlValues}
  /\ contact = [n \in {1, 2} |-> FALSE]
  /\ cb = CbIdle
  /\ owed = <<>>
  /\ quiet = 0 /\ gapUnit = 0
  /\ run = "none" /\ runLast = "none"
  /\ changes = 0 /\ committed = 0
  /\ made = NothingMade /\ reported = "none"
  /\ limits = [sign |-> MaxSign, prefix |-> MaxPrefix, pending |-> PollLen,
              changes |-> MaxChanges]
  /\ script = <<>>

\* lines 157-191: one call of poll(), whatever is pending
PollOnce ==
  /\ LET r == poll(pending, ctrl, paddles, wpm)
     IN  /\ dit' = r.dit /\ dah' = r.dah
         /\ paddles' = r.paddles /\ wpm' = r.wpm
         /\ changes' = IF r.wpm # wpm THEN changes + 1 ELSE changes
         /\ screen' = screen \o r.out
         /\ reported' = IF r.dit THEN "dit" ELSE IF r.dah THEN "dah" ELSE "none"
  /\ pending' = <<>> /\ ctrl' = <<>>
  /\ UNCHANGED <<pc, state, sign, sign_len, elapsed, sleepLeft, delay, rts,
                 audiobuffer, contact, cb, owed, quiet, gapUnit, run, runLast,
                 committed, limits, script, made>>

SpecPoll == InitPoll /\ [][PollOnce]_vars

\* ------------------------------------------------------------ short taps
\* The port buffers up to TapPending messages between two polls, so that a
\* press and its release can reach the same poll.
InitTap ==
  /\ Entry
  /\ limits = [sign |-> TapSign, prefix |-> HoldPrefix, pending |-> TapPending,
              changes |-> MaxChanges]
  /\ script = <<>>

SpecTap == InitTap /\ [][Next]_vars

\* ------------------------------------------------------------------ claims
Keying == pc = "key" /\ pc' = "play"      \* a step that begins an element
Units(st) == IF st = "dit" THEN 1 ELSE 3  \* nominal length of the element of st

\* The transition table of C1: rows
\* <<from, dit, dah, to>>, where "any" matches both poll results.
YesNo(b) == IF b THEN "yes" ELSE "no"

TransitionTable ==
  { <<"idle", "yes", "any", "dit">>,
    <<"idle", "no", "yes", "dah">>,
    <<"idle", "no", "no", "idle">>,
    <<"dit", "any", "yes", "pause before dah">>,
    <<"dit", "any", "no", "pause after dit">>,
    <<"dah", "yes", "any", "pause before dit">>,
    <<"dah", "no", "any", "pause after dah">>,
    <<"pause after dit", "any", "yes", "dah">>,
    <<"pause after dit", "any", "no", "idle">>,
    <<"pause after dah", "yes", "any", "dit">>,
    <<"pause after dah", "no", "any", "idle">>,
    <<"pause before dit", "any", "any", "dit">>,
    <<"pause before dah", "any", "any", "dah">> }

TableAllows(from, d, h, to) ==
  \E row \in TransitionTable :
    /\ row[1] = from /\ row[4] = to
    /\ row[2] \in {"any", YesNo(d)} /\ row[3] \in {"any", YesNo(h)}

\* C1: the state is idle at the start; every non-blocking poll moves the state
\* along the one row of the transition table that matches the poll result,
\* and no other step of the loop changes the state.
C1_TransitionTable ==
  /\ state = "idle"
  /\ [][/\ PollStep => /\ TableAllows(state, dit', dah', state')
                       /\ \A to \in States : TableAllows(state, dit', dah', to) => to = state'
        /\ ~PollStep => state' = state]_vars

C1_Witness == state = "pause before dit" /\ dit /\ pc = "poll" /\ Len(sign) = 2

\* C2: while both contacts stay closed from a moment in idle on, the first
\* element keyed is a dit and every further element differs from the one before.
C2_Squeeze ==
  [][(Keying /\ run = "both") =>
       IF runLast = "none" THEN state = "dit" ELSE state # runLast]_vars

C2_Witness == run = "both" /\ runLast = "dit" /\ sign = <<".", "-", ".">> /\ pc = "hold"

\* no bound of the run stops the next element
Uncapped == Len(sign) < limits.sign /\ OtherText <= limits.prefix

\* C3: while the dit contact stays closed from a moment in idle on and no dah
\* press is seen, every element keyed is a dit, a dit that follows a dit
\* begins exactly one dot_duration after the line was released, and another
\* dit is always begun.
C3_DitHold ==
  /\ [][(Keying /\ run = "dit") =>
          /\ state = "dit"
          /\ runLast = "dit" => quiet = gapUnit]_vars
  /\ (run = "dit" /\ Uncapped) ~> (run # "dit" \/ pc = "play" \/ ~Uncapped)

C3_Witness ==
  /\ run = "dit" /\ runLast = "dit" /\ sign = <<".", ".", ".">> /\ pc = "hold"
  /\ changes = 1

\* C4: an append that interleaves with a pull on the same queue loses,
\* duplicates and reorders nothing: the samples appended so far and not yet
\* returned by a pull are, in order, what the queue holds.
C4_NothingLost == audiobuffer[1] = owed

\* a pull of frame_count samples from queue returns out and leaves left
Pulled(queue, frame_count, out, left) ==
  /\ Len(out) = frame_count
  /\ out = Pad(Take(queue, frame_count), frame_count)
  /\ \A i \in 1..frame_count : i > Len(queue) => out[i] = Bias
  /\ left = Drop(queue, frame_count)

\* C5: a pull for frame_count samples returns the first samples of the queue,
\* padded with 128 up to frame_count, and leaves in the queue exactly what
\* was behind them.  The queue is the one the call found; the blocks appended
\* while the call ran either were all in it or all follow what it leaves.
C5_PullContract ==
  [][CbStore =>
       \/ Pulled(cb.before \o cb.arrived, cb.frame_count, Returned(cb),
                 audiobuffer'[1])
       \/ \E k \in 0..Len(audiobuffer'[1]) :
            /\ Pulled(cb.before, cb.frame_count, Returned(cb),
                      SubSeq(audiobuffer'[1], 1, k))
            /\ SubSeq(audiobuffer'[1], k + 1, Len(audiobuffer'[1])) = cb.arrived]_vars

\* C6 as claimed: once the interrupt has ended the loop, the keying line is low.
C6_LineLowAfterInterrupt == pc = "exit" => rts = 0

\* C7: the keying line is high exactly from the start of an element to the end
\* of its hold: high when the block is enqueued and during the hold, low in
\* the gap, at every poll and transition, and in idle and the pause states.
C7_LineOnlyWhileKeying ==
  /\ rts \in {0, 1}
  /\ pc \in {"play", "hold"} => rts = 1
  /\ pc \in {"gap", "poll", "key", "wait"} => rts = 0
  /\ state \notin {"dit", "dah"} => rts = 0
  /\ ENABLED PollStep => rts = 0

C7_Witness == pc = "gap" /\ rts = 0 /\ state = "dah" /\ sleepLeft = 0

\* C8 as claimed: when the hold of an element ends, the time since the keying
\* timestamp is the nominal length of the element.
C8_HoldIsNominal ==
  (pc = "hold" /\ sleepLeft = 0) => elapsed = Units(state) * dot_duration(wpm)

\* the decode step: the non-blocking poll found the keyer idle and no press
DecodeStep == PollStep /\ state = "idle" /\ pc' = "wait"

\* the last n columns of a transcript, and the columns before them
LastColumns(scr, n) == SubSeq(scr, Len(scr) - n + 1, Len(scr))
ButLast(scr, n) == SubSeq(scr, 1, Len(scr) - n)

\* C9: at the decode step, if the sign is a key of the Morse table, exactly
\* the columns of its provisional rendering are erased and the table's token
\* is printed in their place; if it is not, exactly one space is printed and
\* nothing is erased; no error is raised.
C9_DecodeStep ==
  [][DecodeStep =>
       LET before == screen \o poll(pending, ctrl, paddles, wpm).out
       IN  /\ pc' # "raise"
           /\ IF sign \in DOMAIN morse
              THEN /\ Len(before) >= Len(sign)
                   /\ LastColumns(before, Len(sign)) = sign
                   /\ screen' = ButLast(before, Len(sign)) \o morse[sign]
              ELSE screen' = before \o <<" ">>]_vars

Raw == {".", "-"}

Rendering(sg) == IF sg \in DOMAIN morse THEN morse[sg] ELSE sg \o <<" ">>

\* the blocking poll returns with a paddle press
WokenByPress == WaitStep /\ (dit' \/ dah')

\* C11: the press that ends the blocking wait after a decode is classified by
\* the delay since the decode: up to one unit, the sign is kept, its decoded
\* rendering is replaced by the raw sign and the next element is keyed into
\* the same sign; from five units on, the sign is reset and exactly one space
\* is printed; in between, the sign is reset and nothing is printed.
C11_Classified ==
  /\ [][(WokenByPress /\ sign # <<>>) =>
          LET marker == poll(pending, ctrl, paddles, wpm).out
              unit == dot_duration(wpm')
              shown == Rendering(sign)
              kept == ButLast(screen, Len(shown))
          IN  IF delay <= unit
              THEN /\ sign' = sign
                   /\ Len(screen) >= Len(shown)
                   /\ LastColumns(screen, Len(shown)) = shown
                   /\ screen' \in {kept \o sign \o marker, kept \o marker \o sign}
              ELSE IF delay >= 5 * unit
              THEN sign' = <<>> /\ screen' = screen \o marker \o <<" ">>
              ELSE sign' = <<>> /\ screen' = screen \o marker]_vars
  /\ [][(PollStep /\ reported # "none") => pc' = "key"]_vars
  /\ [][KeyBegin => sign' = Append(sign, IF state = "dit" THEN "." ELSE "-")]_vars
\* the blocking poll returns with a paddle press while a decoded sign is shown
PressAfterSign == WokenByPress /\ sign # <<>>

\* C12 as stated: a press after a silence of exactly five units, counted from
\* the release of the line, puts a word-space before the next character.
C12_FiveUnitsOfSilence ==
  [][(PressAfterSign /\ gapUnit = dot_duration(wpm') /\ quiet = 5 * gapUnit) =>
       screen' = screen \o poll(pending, ctrl, paddles, wpm).out \o <<" ">>]_vars

\* C12: the press puts a word-space before the next character exactly when
\* it comes five units or more after the decode, and the decode comes no
\* sooner than one gap (the unit slept at line 211) after the release of the
\* line: six units of silence at an unchanged speed.
C12_WordSpace ==
  [][PressAfterSign =>
       LET before == screen \o poll(pending, ctrl, paddles, wpm).out
       IN  /\ delay <= quiet - gapUnit
           /\ (screen' = before \o <<" ">>) <=> (delay >= 5 * dot_duration(wpm'))
           /\ (screen' = before \o <<" ">>)
                => (quiet >= gapUnit + 5 * dot_duration(wpm'))
           /\ (gapUnit = dot_duration(wpm') /\ quiet < 6 * gapUnit)
                => (sign' # <<>> \/ screen' = before)]_vars

C12_Witness ==
  /\ screen = <<"E", " ">> /\ committed = 2 /\ reported = "dit" /\ pc = "poll"

\* C13 as stated: from the start of the program, a dit, a wait of more than
\* five units, three dits, such a wait again and a dit leave the transcript
\* E, space, S, space, E, with nothing before the first E.
C13_Transcript ==
  (script = <<>> /\ pc = "wait") => screen = <<"E", " ", "S", " ", "E">>

\* C14 as stated: a press reported by a poll made in idle, the blocking poll
\* included, is never dropped: the poll that follows the blocking poll keys an
\* element, a dit if a dit was reported there or is reported now, otherwise a
\* dah; and a press reported by the non-blocking poll in idle is keyed at once.
C14_PressKeyed ==
  /\ [][(PollStep /\ state = "idle" /\ reported # "none") =>
          LET r == poll(pending, ctrl, paddles, wpm)
          IN  /\ pc' = "key"
              /\ state' = IF reported = "dit" \/ r.dit THEN "dit" ELSE "dah"]_vars
  /\ [][(PollStep /\ state = "idle" /\ reported = "none") =>
          LET r == poll(pending, ctrl, paddles, wpm)
          IN  (r.dit \/ r.dah) =>
                (pc' = "key" /\ state' = IF r.dit THEN "dit" ELSE "dah")]_vars

Frames == made.up + made.steady + made.down

\* C15 as stated: generate_sample returns round(duration * sample_rate)
\* samples, the first and the last round(ramp * sample_rate) of them the ramps.
C15_RoundedDuration ==
  made # NothingMade =>
    /\ Frames = Round(made.units * UnitFrames, wpm)
    /\ made.up = Round(RampNum * sample_rate, 1000)
    /\ made.down = Round(RampNum * sample_rate, 1000)

\* C15 amended: the block is the two ramps of int(ramp * sample_rate) = 576
\* samples around int((duration - ramp) * sample_rate) steady samples, so it
\* lasts the duration plus one ramp, less at most two samples of truncation.
C15_DurationPlusRamp ==
  made # NothingMade =>
    /\ made.up = 576 /\ made.down = 576
    /\ made.steady >= 0
    /\ wpm * (Frames + 2) > made.units * UnitFrames + 576 * wpm
    /\ wpm * Frames <= made.units * UnitFrames + 576 * wpm

\* a dit at the default speed: 576 + 1823 or 1824 + 576 samples
C15_Witness ==
  /\ wpm = DefaultWpm /\ made.units = 1
  /\ made.up = 576 /\ made.steady = 1823 /\ made.down = 576

\* C16 as stated: the decode step runs only when the sign is not empty: a
\* poll in idle with an empty sign and no contact pressed writes nothing to
\* the transcript (but the speed marker of the poll itself).
C16_NothingForEmptySign ==
  [][(PollStep /\ state = "idle" /\ sign = <<>>) =>
       LET r == poll(pending, ctrl, paddles, wpm)
       IN  ~(r.dit \/ r.dah) => screen' = screen \o r.out]_vars

Pressed(n) == \E i \in 1..Len(pending) : pending[i] = NoteOn(n)
Events(n) == {i \in 1..Len(pending) : pending[i] \in {NoteOn(n), NoteOff(n)}}
LastEvent(n) == CHOOSE i \in Events(n) : \A j \in Events(n) : j <= i

\* C17: poll() returns True for a contact exactly when the contact was stored
\* as pressed at the start or a press of it was drained, a release drained in
\* the same poll or not; the stored state of a contact afterwards is the last
\* press or release drained for it, and unchanged when none was.
C17_PollResult ==
  [][PollOnce =>
       /\ dit' = (paddles[1] \/ Pressed(1))
       /\ dah' = (paddles[2] \/ Pressed(2))
       /\ \A n \in {1, 2} :
            paddles'[n] = IF Events(n) = {} THEN paddles[n]
                          ELSE pending[LastEvent(n)] = NoteOn(n)]_vars

\* a press and its release were drained by one poll: reported, stored open
C17_Witness ==
  /\ pending = <<>> /\ dit /\ ~paddles[1] /\ ~dah /\ ~paddles[2]

\* C18: the keyer state is always one of the seven states of the table, and
\* the loop never raises 'Bad state', whatever the paddles and the speed knob
\* send.
C18_SevenStates == state \in States /\ pc # "raise"

\* the dit contact was found closed after a dah, and the speed was changed
C18_Witness == state = "pause before dit" /\ pc = "poll" /\ changes > 0

\* what the transcript shows of the current sign: the decoded rendering while
\* the loop waits in the blocking poll, the raw sign anywhere else
Shown == IF pc = "wait" THEN Rendering(sign) ELSE sign

\* C19 as stated: at every point of the loop sign_len is the number of
\* transcript columns that show the current sign, and these are the last
\* columns of the transcript, so that erase_chars(sign_len) removes exactly
\* them; after an element is keyed sign_len = len(sign).
C19_WidthBookkeeping ==
  Running =>
    /\ sign_len = Len(Shown)
    /\ Len(screen) >= sign_len
    /\ LastColumns(screen, sign_len) = Shown
    /\ (pc \in {"play", "hold"} => sign_len = Len(sign))

BothOpen == ~contact[1] /\ ~contact[2]

\* the decode output of the current sign ends the transcript
DecodeShown ==
  /\ Len(screen) >= Len(Rendering(sign))
  /\ LastColumns(screen, Len(Rendering(sign))) = Rendering(sign)

\* the loop waits in the blocking poll of idle behind the decode output
DecodedAndWaiting == pc = "wait" /\ state = "idle" /\ DecodeShown

\* C20: once an element is keyed and both contacts are open, then unless a
\* contact is closed again (or the loop is interrupted, or the run is at its
\* bound) the loop reaches idle, prints the decode output of the sign and
\* waits in the blocking poll; and a sign is reset to empty only there, behind
\* its decode output.
C20_DecodedThenWaits ==
  /\ (sign # <<>> /\ BothOpen /\ Running)
       ~> (DecodedAndWaiting \/ ~BothOpen \/ ~Running \/ (pc = "key" /\ ~Uncapped))
  /\ [][(sign # <<>> /\ sign' = <<>> /\ Running') => DecodedAndWaiting]_vars

\* dit, dah keyed and released; decoded to A, the loop waits
C20_Witness ==
  /\ sign = <<".", "-">> /\ BothOpen /\ pc = "wait" /\ screen = <<"A">>
  /\ pending = <<>>
====
